---- MODULE Spec2Model ----
(***************************************************************************)
(* Event-stream to log-ingestion forwarder.                                *)
(*                                                                         *)
(* Seven specifications share the variables of this module:                *)
(*   Spec            one partition worker: the per-event callback          *)
(*                   (process_message -> process -> send -> checkpoint)    *)
(*                   for every partition its client receives from          *)
(*   SpecSupervisor  EventHubManager and its PartitionProcess workers      *)
(*   SpecExtract     CustomProcessor.extract_logs applied to one raw event *)
(*   SpecBatch       LogSender._prepare_batches, one generator step at a   *)
(*                   time                                                  *)
(*   SpecRules       MetadataEngine: the rule files loaded at construction *)
(*                   and apply() on a record                               *)
(*   SpecStore       FileCheckpointStore.update_checkpoint                 *)
(*   SpecFields      CustomProcessor._build_parsed_record on one record:   *)
(*                   severity, resource attributes, timestamp              *)
(***************************************************************************)
EXTENDS Integers, Sequences, FiniteSets, TLC

\* ------------------------------------------------------------------ bounds
NumPartitions == 2      \* config['partitions'] of the event hub
MaxEvents     == 2      \* events delivered per partition subscription
MaxBatches    == 2      \* batches one event's entries are packed into
MaxRetries    == 2      \* config['performance']['http']['max_retries']
Concurrency   == 1      \* config['performance']['http']['concurrency']
MaxHandled    == 1      \* events a worker is followed through, per partition
MaxEntries    == 4      \* entries handed to _prepare_batches
MaxEntrySize  == 3      \* serialized size of one entry
MaxBytes      == 5      \* config['log_ingestion']['max_request_size']
MaxCount      == 2      \* config['log_ingestion']['max_events_per_request']
MaxRecords    == 2      \* records in one event payload
MaxStrLen     == 2      \* length of a field value of a record
MaxLimit      == 2      \* config['log_processing'] length limits
MaxMark       == 2      \* length of config['log_processing']['content_truncated_mark']

Partitions == 0 .. (NumPartitions - 1)
Workers    == 0 .. (NumPartitions - 1)

VARIABLES
    \* ---- Spec: the per-event callback of one worker for one partition
    part,        \* the partition whose subscription is followed
    pc,          \* "idle" | "sending" | "processed" | "crashed" | "retry"
    cur,         \* sequence number of the event last handed to the callback
    batches,     \* the batch tasks of the running send()
    sendState,   \* send() for that event: "none" | "notcalled" | "true" | "false"
    raisedEv,    \* process() raised for that event
    invoked,     \* sequence number of the last partition_context.update_checkpoint(event)
    store,       \* [partition -> checkpoint.json of the worker's FileCheckpointStore]
    \* ---- SpecSupervisor
    started,     \* EventHubManager.start() has run
    alive,       \* [worker -> Process.is_alive()]
    exited,      \* [worker -> "no" | "crashed" | "stopped"]
    handled,     \* [worker -> [partition -> number of events its callback processed]]
    \* ---- SpecExtract
    xCfg,        \* log_processing limits and marker
    xEvent,      \* the raw event
    xResult,     \* "pending" | [raised, logs]
    \* ---- SpecBatch
    bCfg,        \* log_ingestion limits
    bLogs,       \* sizes of the serialized entries, in input order
    bIdx,        \* entries consumed by the for-loop
    current_batch,
    current_size,
    bOut,        \* batches yielded so far (each a sequence of input indices)
    bDone,       \* generator exhausted
    \* ---- SpecRules
    rFiles,      \* the rule files of the directory, in listdir order
    rules,       \* MetadataEngine.rules
    default_rule,\* MetadataEngine.default_rule
    rIn,         \* the (record, parsed_record) last handed to apply()
    rOut,        \* what that apply() did: rules evaluated, rules applied, parsed_record
    \* ---- SpecStore
    ckFile,      \* [partition -> the records written in checkpoint.json]
    ckCalls,     \* [partition -> the checkpoints update_checkpoint was called with]
    \* ---- SpecFields
    fRecord,     \* the raw record handed to _build_parsed_record
    fParsed,     \* the parsed record it built
    fDone        \* _build_parsed_record has returned

workerVars == <<part, pc, cur, batches, sendState, raisedEv, invoked, store>>
superVars  == <<started, alive, exited, handled>>
extractVars == <<xCfg, xEvent, xResult>>
batchVars  == <<bCfg, bLogs, bIdx, current_batch, current_size, bOut, bDone>>
ruleVars   == <<rFiles, rules, default_rule, rIn, rOut>>
ckVars     == <<ckFile, ckCalls>>
fieldVars  == <<fRecord, fParsed, fDone>>
vars == <<workerVars, superVars, extractVars, batchVars, ruleVars, ckVars,
          fieldVars>>

\* =====================================================================
\* Delivery engine (services/logs_sender.py)
\* =====================================================================

\* What one HTTP attempt can do: a response with a status code, an
\* aiohttp.ClientError, or any other exception (asyncio.TimeoutError of the
\* total timeout is not a ClientError).
HttpStatuses == {200, 299, 300, 500}
HttpOutcomes == [type : {"response"}, status : HttpStatuses]
                \cup { [type |-> "ClientError", status |-> 0],
                       [type |-> "TimeoutError", status |-> 0] }

\* LogSender._handle_response: True iff status < 300.
handle_response(status) == status < 300

\* LogSender._send_batch: the value returned, or "raise" when the exception
\* is not an aiohttp.ClientError.
send_batch(o) ==
    IF o.type = "response"
      THEN (IF handle_response(o.status) THEN "true" ELSE "false")
      ELSE IF o.type = "ClientError" THEN "false"
      ELSE "raise"

\* LogSender._process_batch, one pass of the for-loop body for attempt a
\* whose _send_batch gave r: the task's next state.
process_batch_propagate(a, r) ==
    IF r = "true" THEN "ok"
    ELSE IF r = "false" THEN "failed"
    ELSE IF a = MaxRetries THEN "raised"
    ELSE "backoff"
process_batch(a, r) ==
    IF r = "true" THEN "ok"
    ELSE IF r = "false" THEN "failed"
    ELSE IF a = MaxRetries THEN "failed"
    ELSE "backoff"

\* asyncio.Semaphore(concurrency): a task is inside "async with semaphore"
\* from its first attempt until _process_batch returns; a permit is free.
HoldsPermit_leak(t) == t.st \in {"posting", "backoff", "failed"}
HoldsPermit(t) == t.st \in {"posting", "backoff"}
PermitFree_always(bs) == TRUE
PermitFree(bs) ==
    Cardinality({b \in DOMAIN bs : HoldsPermit(bs[b])}) < Concurrency

\* await asyncio.gather(*tasks): every task has returned.
Returned(t) == t.st \in {"ok", "failed"}
gather_first(bs) == \E b \in DOMAIN bs : Returned(bs[b])
gather(bs) == \A b \in DOMAIN bs : Returned(bs[b])

\* return all(results)
all_any(bs) == \E b \in DOMAIN bs : bs[b].st = "ok"
all(bs) == \A b \in DOMAIN bs : bs[b].st = "ok"

NewTask == [st |-> "queued", attempt |-> 0, last |-> "none"]

\* How the ingestion endpoint's answer counts for the delivery contract.
Classify(o) ==
    IF o.type = "response"
      THEN (IF o.status < 300 THEN "delivered" ELSE "status")
      ELSE IF o.type = "ClientError" THEN "neterr" ELSE "exc"

\* =====================================================================
\* Partition worker (services/eventhub_consumer.py, processor/custom_processor.py)
\* =====================================================================

\* EventHubConsumer.client: the checkpoint store handed to
\* EventHubConsumerClient.from_connection_string.  No checkpoint_store
\* argument is passed, so the client has none.
client_checkpoint_store == "none"

\* EventHubConsumer.run: client.receive(on_event=...) names no partition, so
\* the client of worker w receives from every partition of the hub.
ReceivePartitions(w) == Partitions

\* EventHubManager._build_process_config: the partition_id put in the
\* configuration of worker w.
build_process_config(w) == w

\* The worker whose callbacks Spec follows.
TheWorker == 0

\* The raw event with sequence number n of partition p, as the stream
\* source hands it over.
Event(p, n) == [partition_id |-> p, offset |-> 10 * n, sequence_number |-> n]

\* FileCheckpointStore.update_checkpoint: checkpoint.json of the partition
\* is opened with 'w' and rewritten.
NoCheckpoint == [offset |-> -1, sequence_number |-> -1]
update_checkpoint(st, checkpoint) ==
    [st EXCEPT ![checkpoint.partition_id] =
        [offset |-> checkpoint.offset,
         sequence_number |-> checkpoint.sequence_number]]

\* What an event's payload makes of the pipeline: extract_logs raises,
\* yields no entries, or yields entries that _prepare_batches packs into
\* n batches (n = 0: every entry was oversized).
EventKinds == { [kind |-> "raise", n |-> 0], [kind |-> "nologs", n |-> 0] }
              \cup [kind : {"logs"}, n : 0 .. MaxBatches]

\* CustomProcessor.process: an exception of extract_logs or of
\* _send_logs_safely is logged and re-raised; process_message wraps it in
\* ProcessingError and error_handler re-raises that.
process_swallow(ev) == FALSE
process(ev) == ev.kind = "raise"

\* What process() or the checkpoint update may raise.
ChainExceptions == {"Exception", "ConnectivityError", "ProcessingError"}

\* EventHubConsumer.process_message, "except Exception as e": whatever was
\* raised is logged and wrapped in a ProcessingError.
process_message_except_pass(exc) == exc
process_message_except(exc) == "ProcessingError"

\* libs/exceptions.error_handler(max_retries=3) around process_message,
\* when the call made after `retries` retries raised exc: the wrapped
\* function is called again ("retry") or the wrapper raises ("raise").
error_handler_max_retries == 3
error_handler_retry(exc, retries) == "retry"
error_handler(exc, retries) ==
    IF exc = "ConnectivityError"
      THEN (IF retries + 1 < error_handler_max_retries THEN "retry" ELSE "raise")
      ELSE "raise"

\* error_handler's wrapper, "while retries < max_retries": the number of
\* calls of the wrapped function from the call after `retries` retries on,
\* when its successive calls end as outcomes says ("ok": it returns).
RECURSIVE wrapper_calls(_, _)
wrapper_calls(outcomes, retries) ==
    IF retries >= error_handler_max_retries THEN 0
    ELSE IF outcomes[retries + 1] = "ok" THEN 1
    ELSE IF error_handler(outcomes[retries + 1], retries) = "retry"
      THEN 1 + wrapper_calls(outcomes, retries + 1)
      ELSE 1

\* How the callback is left when the chain raised exc on its first call.
callback_exit(exc) ==
    IF error_handler(process_message_except(exc), 0) = "retry"
      THEN "retry" ELSE "crashed"

\* CustomProcessor._send_logs_safely: a False result of send() is logged
\* ("Partial logs failed to send") and nothing is raised.
send_logs_safely(result) == FALSE

\* The callbacks of different partitions share no state: every send() call
\* builds its own semaphore, session and tasks, and checkpoint.json is kept
\* per partition.  A behaviour therefore follows the subscription of the
\* worker to one partition, part, chosen among those its client receives.
WorkerInit ==
    /\ part \in ReceivePartitions(TheWorker)
    /\ pc = "idle"
    /\ cur = 0
    /\ batches = <<>>
    /\ sendState = "none"
    /\ raisedEv = FALSE
    /\ invoked = 0
    /\ store = [p \in Partitions |-> NoCheckpoint]

\* LogSender.send, "if not batches": nothing is left to post, a warning is
\* logged and the result is True.
send_no_batches_false == "false"
send_no_batches == "true"

\* The stream client calls process_message(partition_context, event) with
\* the next event of the partition; process() runs extract_logs and, when
\* there are entries, enters send(): batches are built and one task per
\* batch is created.
Receive(ev) ==
    /\ pc = "idle"
    /\ cur < MaxEvents
    /\ cur' = cur + 1
    /\ raisedEv' = (ev.kind = "raise")
    /\ IF ev.kind = "raise"
         THEN /\ \E exc \in ChainExceptions :
                   pc' = IF process(ev) THEN callback_exit(exc) ELSE "processed"
              /\ sendState' = "notcalled"
              /\ batches' = <<>>
         ELSE IF ev.kind = "nologs"
         THEN /\ pc' = "processed"
              /\ sendState' = "notcalled"
              /\ batches' = <<>>
         ELSE IF ev.n = 0
         THEN /\ pc' = "processed"
              /\ sendState' = send_no_batches
              /\ batches' = <<>>
         ELSE /\ pc' = "sending"
              /\ sendState' = "none"
              /\ batches' = [b \in 1 .. ev.n |-> NewTask]
    /\ UNCHANGED <<part, invoked, store>>

\* _process_batch: "async with semaphore" is entered and the first attempt
\* starts (with max_retries < 1 the loop body never runs and the task
\* returns False).
Acquire(b) ==
    /\ pc = "sending"
    /\ b \in DOMAIN batches
    /\ batches[b].st = "queued"
    /\ PermitFree(batches)
    /\ batches' = [batches EXCEPT ![b] =
          IF MaxRetries < 1
            THEN [@ EXCEPT !.st = "failed"]
            ELSE [@ EXCEPT !.st = "posting", !.attempt = 1]]
    /\ UNCHANGED <<part, pc, cur, sendState, raisedEv, invoked, store>>

\* The POST of the current attempt ends with outcome o: _send_batch and the
\* except-branch of _process_batch decide between returning and backing off.
Respond(b, o) ==
    /\ pc = "sending"
    /\ b \in DOMAIN batches
    /\ batches[b].st = "posting"
    /\ LET t == batches[b] IN
         batches' = [batches EXCEPT ![b] =
            [st |-> process_batch(t.attempt, send_batch(o)),
             attempt |-> t.attempt,
             last |-> Classify(o)]]
    /\ UNCHANGED <<part, pc, cur, sendState, raisedEv, invoked, store>>

\* asyncio.sleep(attempt * 1.5) is over: the for-loop starts the next attempt.
Retry(b) ==
    /\ pc = "sending"
    /\ b \in DOMAIN batches
    /\ batches[b].st = "backoff"
    /\ LET t == batches[b] IN
         batches' = [batches EXCEPT ![b] =
            [t EXCEPT !.st = "posting", !.attempt = t.attempt + 1]]
    /\ UNCHANGED <<part, pc, cur, sendState, raisedEv, invoked, store>>

\* gather() is complete: send() returns all(results); _send_logs_safely
\* logs a False result; process() returns.
SendReturn ==
    /\ pc = "sending"
    /\ gather(batches)
    /\ LET result == IF all(batches) THEN "true" ELSE "false" IN
         /\ sendState' = result
         /\ IF send_logs_safely(result)
              THEN /\ pc' = "crashed"
                   /\ raisedEv' = TRUE
              ELSE /\ pc' = "processed"
                   /\ UNCHANGED raisedEv
    /\ UNCHANGED <<part, cur, batches, invoked, store>>

\* process_message step 3: await partition_context.update_checkpoint(event).
\* The partition context forwards to the client's checkpoint store when the
\* client has one.
UpdateCheckpoint_sent ==
    /\ pc = "processed"
    /\ sendState \in {"true", "false"}
    /\ invoked' = cur
    /\ store' = store
    /\ pc' = "idle"
    /\ UNCHANGED <<part, cur, batches, sendState, raisedEv>>
UpdateCheckpoint ==
    /\ pc = "processed"
    /\ invoked' = cur
    /\ store' = IF client_checkpoint_store = "FileCheckpointStore"
                  THEN update_checkpoint(store, Event(part, cur))
                  ELSE store
    /\ pc' = "idle"
    /\ UNCHANGED <<part, cur, batches, sendState, raisedEv>>

\* =====================================================================
\* Initial values of the variables a specification does not use
\* =====================================================================
SuperInit ==
    /\ started = FALSE
    /\ alive = [w \in Workers |-> FALSE]
    /\ exited = [w \in Workers |-> "no"]
    /\ handled = [w \in Workers |-> [p \in Partitions |-> 0]]
ExtractIdle ==
    /\ xCfg = [content_limit |-> 1, attribute_limit |-> 1, truncated_mark |-> <<>>]
    /\ xEvent = [body |-> "empty", lenient |-> FALSE, records |-> <<>>]
    /\ xResult = [state |-> "off", raised |-> FALSE, logs |-> <<>>]
BatchIdle ==
    /\ bCfg = [max_size |-> 0, max_events |-> 0]
    /\ bLogs = <<>>
    /\ bIdx = 0
    /\ current_batch = <<>>
    /\ current_size = 0
    /\ bOut = <<>>
    /\ bDone = FALSE
\* A string is a sequence of one-character strings; Absent stands for a
\* missing key (dict.get gives its default, jmespath.search gives None).
Absent == <<"None">>
\* "None" where a ConfigRule is expected.
NoRule == [entity_type_name |-> "None", source_matchers |-> <<>>, attributes |-> <<>>]
RESOURCE_TYPE_ATTRIBUTE == "azure.resource.type"
ParsedKeys == {RESOURCE_TYPE_ATTRIBUTE, "dt.source", "dt.entity"}
NoRecord == [category |-> Absent]
NoParsed == [k \in ParsedKeys |-> Absent]
RuleIdle ==
    /\ rFiles = <<>>
    /\ rules = <<>>
    /\ default_rule = NoRule
    /\ rIn = [called |-> FALSE, record |-> NoRecord, parsed |-> NoParsed]
    /\ rOut = [evaluated |-> <<>>, applied |-> <<>>, parsed |-> NoParsed]
StoreIdle ==
    /\ ckFile = [p \in Partitions |-> <<>>]
    /\ ckCalls = [p \in Partitions |-> <<>>]
\* A JSON value of a record field: absent, or a value of type t with its
\* int value i (a bool is the int 1 or 0) and its str() form s.
NoValue == [t |-> "absent", i |-> 0, s |-> ""]
\* A resourceId field: absent, or a value of type t; a string is the
\* sequence of its pieces, each "/" or a word without "/".
NoId == [t |-> "absent", chars |-> <<>>]
\* A timestamp field: absent, or a value of type t; a string is two-digit
\* fields and a four-digit year joined by sep, the year first or last,
\* then " HH:MM:SS" and the text rest.
NoStamp ==
    [t |-> "absent", sep |-> "", year_first |-> FALSE, year |-> 0, month |-> 0,
     day |-> 0, hour |-> 0, minute |-> 0, second |-> 0, rest |-> ""]
\* A raw record, with the keys that the attributes of the metadata rule
\* applied to it copy from the record.
NoFields ==
    [Level |-> NoValue, level |-> NoValue, resourceId |-> NoId,
     timestamp |-> NoStamp, attributes |-> {}]
RESOURCE_ID_ATTRIBUTE == "azure.resource.id"
SUBSCRIPTION_ATTRIBUTE == "azure.subscription"
RESOURCE_GROUP_ATTRIBUTE == "azure.resource.group"
RESOURCE_NAME_ATTRIBUTE == "azure.resource.name"
ResourceKeys ==
    {RESOURCE_ID_ATTRIBUTE, SUBSCRIPTION_ATTRIBUTE, RESOURCE_GROUP_ATTRIBUTE,
     RESOURCE_TYPE_ATTRIBUTE, RESOURCE_NAME_ATTRIBUTE}
EntryKeys == {"cloud.provider", "severity", "timestamp"} \cup ResourceKeys
\* A parsed record: its keys, their values, and whether building it raised
\* (the record is then dropped by _process_record).
NoOutput == [keys |-> {}, val |-> [k \in EntryKeys |-> ""], raised |-> FALSE]
FieldIdle ==
    /\ fRecord = NoFields
    /\ fParsed = NoOutput
    /\ fDone = FALSE

WorkerIdle ==
    /\ part = 0
    /\ pc = "off"
    /\ cur = 0
    /\ batches = <<>>
    /\ sendState = "none"
    /\ raisedEv = FALSE
    /\ invoked = 0
    /\ store = [p \in Partitions |-> NoCheckpoint]

Init ==
    WorkerInit /\ SuperInit /\ ExtractIdle /\ BatchIdle /\ RuleIdle /\ StoreIdle /\ FieldIdle

Next ==
    \/ \E ev \in EventKinds :
          Receive(ev) /\ UNCHANGED <<superVars, extractVars, batchVars, ruleVars, ckVars, fieldVars>>
    \/ \E b \in 1 .. MaxBatches :
          Acquire(b) /\ UNCHANGED <<superVars, extractVars, batchVars, ruleVars, ckVars, fieldVars>>
    \/ \E b \in 1 .. MaxBatches, o \in HttpOutcomes :
          Respond(b, o) /\ UNCHANGED <<superVars, extractVars, batchVars, ruleVars, ckVars, fieldVars>>
    \/ \E b \in 1 .. MaxBatches :
          Retry(b) /\ UNCHANGED <<superVars, extractVars, batchVars, ruleVars, ckVars, fieldVars>>
    \/ SendReturn /\ UNCHANGED <<superVars, extractVars, batchVars, ruleVars, ckVars, fieldVars>>
    \/ UpdateCheckpoint /\ UNCHANGED <<superVars, extractVars, batchVars, ruleVars, ckVars, fieldVars>>

Spec == Init /\ [][Next]_vars

\* Spec with the scheduling of the event loop: a task that can enter the
\* semaphore does, every HTTP attempt ends (response, error or timeout),
\* every asyncio.sleep ends, gather() returns once all tasks have, and the
\* awaited checkpoint update is carried out.
SpecLive ==
    /\ Spec
    /\ \A b \in 1 .. MaxBatches :
          /\ WF_vars(Acquire(b) /\ UNCHANGED <<superVars, extractVars, batchVars,
                                                ruleVars, ckVars, fieldVars>>)
          /\ WF_vars((\E o \in HttpOutcomes : Respond(b, o))
                        /\ UNCHANGED <<superVars, extractVars, batchVars,
                                       ruleVars, ckVars, fieldVars>>)
          /\ WF_vars(Retry(b) /\ UNCHANGED <<superVars, extractVars, batchVars,
                                              ruleVars, ckVars, fieldVars>>)
    /\ WF_vars(SendReturn /\ UNCHANGED <<superVars, extractVars, batchVars,
                                          ruleVars, ckVars, fieldVars>>)
    /\ WF_vars(UpdateCheckpoint /\ UNCHANGED <<superVars, extractVars, batchVars,
                                                ruleVars, ckVars, fieldVars>>)

\* =====================================================================
\* Properties of the delivery pipeline (checked under Spec)
\* =====================================================================

\* A delivery attempt of the running send() has not concluded.
DeliveryPending == \E b \in DOMAIN batches : ~Returned(batches[b])

\* The event last handed to the callback has been checkpointed.
Checkpointed == cur > 0 /\ invoked = cur

\* C1: a batch is marked failed after an HTTP status >= 300 or a network
\* error only when max_retries attempts have been made (every failed
\* attempt with attempts left is followed by another one).
C1_FailedAttemptIsRetried ==
    \A b \in DOMAIN batches :
        (batches[b].st = "failed" /\ batches[b].last \in {"status", "neterr"})
            => batches[b].attempt = MaxRetries

\* C2: once send() has returned, its result is true exactly when every
\* batch it built got a response with status below 300.
C2_SendIsConjunction ==
    (pc = "processed" /\ sendState \in {"true", "false"})
        => ((sendState = "true")
              <=> (\A b \in DOMAIN batches : batches[b].last = "delivered"))
C2_Witness ==
    /\ pc = "processed"
    /\ sendState = "false"
    /\ \E b \in DOMAIN batches : batches[b].last = "delivered"
    /\ \E b \in DOMAIN batches : batches[b].last = "status"

\* C3 (as stated): an event for which send() reported failure is not
\* checkpointed.
C3_FailedSendNotCheckpointed ==
    Checkpointed => sendState # "false"

\* C3 (amended): the checkpoint update of an event is invoked only after
\* process() has returned for it without raising, and a False result of
\* send() does not keep the callback from reaching that update.
C3_CheckpointAfterProcessReturns ==
    /\ invoked <= cur
    /\ Checkpointed => (pc = "idle" /\ ~raisedEv
                          /\ sendState \in {"notcalled", "true", "false"})
    /\ pc = "processed" => ~raisedEv
    /\ sendState = "false" => (pc \in {"processed", "idle"}
                                 /\ (pc = "idle" => Checkpointed))
C3_Witness ==
    Checkpointed /\ sendState = "false"

\* C4: checkpoint positions of a partition never decrease, and no
\* checkpoint covers an event one of whose delivery attempts is pending.
C4_CheckpointOrder ==
    /\ [](DeliveryPending => invoked < cur)
    /\ [](pc = "sending" => invoked < cur)
    /\ [][/\ invoked' >= invoked
          /\ \A p \in Partitions :
                store'[p].sequence_number >= store[p].sequence_number]_vars
C4_Witness ==
    /\ cur = 2
    /\ invoked = 1
    /\ \E b \in DOMAIN batches : batches[b].st = "backoff"

\* C5: when an event's pipeline has completed without exception, the
\* FileCheckpointStore of the worker holds that event's offset and
\* sequence number for its partition.
C5_StoreHoldsCompletedEvent ==
    (pc = "idle" /\ cur > 0 /\ ~raisedEv)
        => store[part] = [offset |-> Event(part, cur).offset,
                          sequence_number |-> cur]

\* C13: at every moment of a send() call the batches that hold a permit
\* (POST in flight or retry backoff) are at most Concurrency, however many
\* batches there are.
C13_PermitsBounded ==
    Cardinality({b \in DOMAIN batches : HoldsPermit(batches[b])}) <= Concurrency
C13_Witness ==
    /\ pc = "sending"
    /\ Cardinality({b \in DOMAIN batches : HoldsPermit(batches[b])}) = Concurrency
    /\ \E b \in DOMAIN batches : batches[b].st = "backoff"
    /\ \E b \in DOMAIN batches : batches[b].st = "queued"

\* C14: whatever an attempt does, a batch task ends with a boolean (a
\* failure of any kind ends as False or goes on to another attempt), and
\* send() returns a boolean: process() never raises because of delivery.
C14_DeliveryNeverRaises ==
    /\ \A b \in DOMAIN batches :
          /\ batches[b].st \in {"queued", "posting", "backoff", "ok", "failed"}
          /\ batches[b].last \in {"status", "neterr"} => batches[b].st = "failed"
          /\ batches[b].last = "exc" =>
                batches[b].st \in {"backoff", "posting", "failed"}
          /\ batches[b].last = "delivered" => batches[b].st = "ok"
    /\ pc = "crashed" => sendState = "notcalled"
    /\ (pc = "processed" /\ batches # <<>>) => sendState \in {"true", "false"}
C14_Witness ==
    /\ pc = "processed"
    /\ sendState = "false"
    /\ \E b \in DOMAIN batches :
          /\ batches[b].last = "exc"
          /\ batches[b].attempt = MaxRetries
          /\ batches[b].st = "failed"
    /\ \E b \in DOMAIN batches : batches[b].last = "neterr"

\* C32: with every HTTP attempt ending, send() returns: every task gets a
\* permit, ends with a result and holds no permit afterwards, whichever way
\* it ended (success, failed result, retries exhausted); when send() has
\* returned no permit is held.
C32_SendTerminates ==
    /\ (pc = "sending") ~> (pc # "sending")
    /\ \A b \in 1 .. MaxBatches :
          /\ (pc = "sending" /\ b \in DOMAIN batches /\ batches[b].st = "queued")
                ~> (b \in DOMAIN batches /\ HoldsPermit(batches[b]))
          /\ (pc = "sending" /\ b \in DOMAIN batches /\ ~Returned(batches[b]))
                ~> (b \in DOMAIN batches /\ Returned(batches[b])
                      /\ ~HoldsPermit(batches[b]))
    /\ [](pc # "sending" =>
            \A b \in DOMAIN batches :
                Returned(batches[b]) /\ ~HoldsPermit(batches[b]))
C32_Witness ==
    /\ pc = "processed"
    /\ Len(batches) = MaxBatches
    /\ batches[1].st = "failed" /\ batches[1].last = "exc"
    /\ batches[1].attempt = MaxRetries
    /\ batches[MaxBatches].st = "ok"

\* C27: a batch gets at least one and at most max_retries attempts and
\* stops at the first success; a failed attempt number k < max_retries is
\* followed by the wait of k times the delay (the task is in "backoff"),
\* and the last failed attempt by no wait.
C27_AttemptsAndBackoff ==
    [][\A b \in DOMAIN batches :
          (pc = "sending" /\ pc' = "sending"
             /\ batches[b].st = "posting" /\ batches'[b].st # "posting") =>
            /\ batches'[b].attempt \in 1 .. MaxRetries
            /\ batches'[b].last = "delivered" => batches'[b].st = "ok"
            /\ (batches'[b].last # "delivered" /\ batches'[b].attempt < MaxRetries)
                  => batches'[b].st = "backoff"
            /\ (batches'[b].last # "delivered" /\ batches'[b].attempt = MaxRetries)
                  => batches'[b].st = "failed"]_vars

\* C20: when the chain of an event raises, the exception leaves the
\* callback (the wrapper does not call process_message again for the
\* event and does not swallow it), no checkpoint update is invoked for
\* that event, and none is invoked afterwards.
C20_ChainExceptionLeavesCallback ==
    /\ [](raisedEv => (pc = "crashed" /\ invoked < cur))
    /\ [](pc # "retry")
    /\ [][pc = "crashed" => (pc' = "crashed" /\ invoked' = invoked /\ cur' = cur)]_vars
C20_Witness ==
    /\ raisedEv
    /\ pc = "crashed"
    /\ cur = 2
    /\ invoked = 1
    /\ sendState = "notcalled"

\* How the successive calls of a wrapped function may end, and how those of
\* process_message end when its chain ends that way.
CallOutcomes == [1 .. error_handler_max_retries -> ChainExceptions \cup {"ok"}]
Converted(outcomes) ==
    [k \in DOMAIN outcomes |->
        IF outcomes[k] = "ok" THEN "ok" ELSE process_message_except(outcomes[k])]

\* C34: the wrapper calls the callback at most max_retries times for an
\* event and calls it again only after a ConnectivityError; process_message
\* turns every failure into ProcessingError, so the callback is called
\* once for each event handed over and its transform-and-send runs once.
C34_CallbackRunsOncePerEvent ==
    /\ [](\A outcomes \in CallOutcomes :
            /\ wrapper_calls(outcomes, 0) \in 1 .. error_handler_max_retries
            /\ \A k \in 1 .. (wrapper_calls(outcomes, 0) - 1) :
                  outcomes[k] = "ConnectivityError"
            /\ wrapper_calls(Converted(outcomes), 0) = 1)
    /\ [](pc # "retry")
    /\ [][cur' # cur => (pc = "idle" /\ cur' = cur + 1)]_vars
    /\ [][(pc' = "sending" /\ pc # "sending") => cur' = cur + 1]_vars
C34_Witness ==
    /\ raisedEv
    /\ pc = "crashed"
    /\ cur = 1
    /\ invoked = 0
    /\ batches = <<>>

\* C35: entries the batcher dropped are no delivery failure.  send()
\* returns true when every batch that was built succeeded; when no batch
\* was built (no entry, or every entry dropped) it returns true without
\* any request being posted; the callback then goes on to the checkpoint
\* update as for any delivered event.
C35_DroppedEntriesAreNotFailures ==
    /\ [](  (/\ pc = "processed"
             /\ sendState # "notcalled"
             /\ \A b \in DOMAIN batches : batches[b].st = "ok")
          => sendState = "true")
    /\ [][(cur' # cur /\ batches' = <<>> /\ sendState' # "notcalled")
            => (pc' = "processed" /\ sendState' = "true")]_vars
    /\ [](batches = <<>> => pc # "sending")
    /\ [][(pc = "processed" /\ sendState = "true")
            => (pc' = "idle" /\ invoked' = cur /\ cur' = cur)]_vars
C35_Witness ==
    /\ pc = "idle"
    /\ cur = 1
    /\ invoked = cur
    /\ sendState = "true"
    /\ batches = <<>>

\* =====================================================================
\* Supervisor (managers/process_manager.py)
\* =====================================================================

\* EventHubManager.start: one PartitionProcess per partition id is created,
\* started and appended to self.processes.
Start ==
    /\ ~started
    /\ started' = TRUE
    /\ alive' = [w \in Workers |-> TRUE]
    /\ UNCHANGED <<exited, handled>>

\* PartitionProcess.run -> EventHubConsumer.run: the client of worker w
\* hands the next event of partition p to process_message.
Consume(w, p) ==
    /\ alive[w]
    /\ p \in ReceivePartitions(w)
    /\ handled[w][p] < MaxHandled
    /\ handled' = [handled EXCEPT ![w][p] = @ + 1]
    /\ UNCHANGED <<started, alive, exited>>

\* PartitionProcess.run: consumer.run() ends with an exception; the loop is
\* closed and the process is gone.  Nothing starts it again.
WorkerExit_all(w) ==
    /\ alive[w]
    /\ alive' = [v \in Workers |-> FALSE]
    /\ exited' = [v \in Workers |-> IF alive[v] THEN "crashed" ELSE exited[v]]
    /\ UNCHANGED <<started, handled>>
WorkerExit(w) ==
    /\ alive[w]
    /\ alive' = [alive EXCEPT ![w] = FALSE]
    /\ exited' = [exited EXCEPT ![w] = "crashed"]
    /\ UNCHANGED <<started, handled>>

\* EventHubManager.shutdown: every process that is alive is terminated and
\* joined.
Shutdown ==
    /\ started
    /\ \E w \in Workers : alive[w]
    /\ alive' = [w \in Workers |-> FALSE]
    /\ exited' = [w \in Workers |-> IF alive[w] THEN "stopped" ELSE exited[w]]
    /\ UNCHANGED <<started, handled>>

\* EventHubManager.monitor
monitor_crashed ==
    [total    |-> NumPartitions,
     active   |-> Cardinality({w \in Workers : started /\ alive[w]}),
     inactive |-> {w \in Workers : started /\ ~alive[w] /\ exited[w] = "crashed"}]
monitor ==
    [total    |-> NumPartitions,
     active   |-> Cardinality({w \in Workers : started /\ alive[w]}),
     inactive |-> {w \in Workers : started /\ ~alive[w]}]

InitSupervisor ==
    WorkerIdle /\ SuperInit /\ ExtractIdle /\ BatchIdle /\ RuleIdle /\ StoreIdle /\ FieldIdle

NextSupervisor ==
    \/ Start /\ UNCHANGED <<workerVars, extractVars, batchVars, ruleVars, ckVars, fieldVars>>
    \/ \E w \in Workers, p \in Partitions :
          Consume(w, p) /\ UNCHANGED <<workerVars, extractVars, batchVars, ruleVars, ckVars, fieldVars>>
    \/ \E w \in Workers :
          WorkerExit(w) /\ UNCHANGED <<workerVars, extractVars, batchVars, ruleVars, ckVars, fieldVars>>
    \/ Shutdown /\ UNCHANGED <<workerVars, extractVars, batchVars, ruleVars, ckVars, fieldVars>>

SpecSupervisor == InitSupervisor /\ [][NextSupervisor]_vars

\* C6: every event of partition p is processed by the worker that was
\* configured for p and by no other worker.
C6_WorkerOwnsOnePartition ==
    /\ \A w \in Workers, p \in Partitions :
          handled[w][p] > 0 => p = build_process_config(w)
    /\ \A p \in Partitions :
          Cardinality({w \in Workers : handled[w][p] > 0}) <= 1

\* The lifecycle state of the worker of partition w.
State(w) ==
    IF ~started THEN "Created"
    ELSE IF alive[w] THEN "Running"
    ELSE IF exited[w] = "crashed" THEN "Crashed"
    ELSE "Stopped"

\* C19: a worker goes Created -> Running -> (Crashed | Stopped); Crashed
\* and Stopped are final and such a worker handles no further event (it is
\* never started again, only reported as inactive); the crash of a worker
\* changes nothing for the others.
C19_WorkerLifecycle ==
    /\ [][\A w \in Workers :
            /\ State(w) = "Created" => State(w)' \in {"Created", "Running"}
            /\ State(w) = "Running" => State(w)' \in {"Running", "Crashed", "Stopped"}
            /\ State(w) \in {"Crashed", "Stopped"}
                  => (State(w)' = State(w) /\ handled'[w] = handled[w])
            /\ (State(w) = "Running" /\ State(w)' = "Crashed")
                  => \A v \in Workers \ {w} :
                        State(v)' = State(v) /\ handled'[v] = handled[v]]_vars
    /\ [](monitor.inactive = {w \in Workers : State(w) \in {"Crashed", "Stopped"}})
    /\ [](monitor.active = Cardinality({w \in Workers : State(w) = "Running"}))
C19_Witness ==
    \E w \in Workers, v \in Workers :
        /\ State(w) = "Crashed"
        /\ \A p \in ReceivePartitions(w) : handled[w][p] = 0
        /\ State(v) = "Stopped"
        /\ \E p \in Partitions : handled[v][p] > 0

SizeSeqs == UNION { [1 .. n -> 1 .. MaxEntrySize] : n \in 0 .. MaxEntries }

\* The sum of the serialized sizes of the entries (input indices) of a batch.
RECURSIVE SumSizes(_, _)
SumSizes(logs, b) ==
    IF b = <<>> THEN 0 ELSE logs[Head(b)] + SumSizes(logs, Tail(b))

\* "if entry_size > max_size": the entry is skipped.
oversized_never(entry_size, cfg) == FALSE
oversized(entry_size, cfg) == entry_size > cfg.max_size

\* "if len(current_batch) >= max_events or (current_size + entry_size) >
\* max_size": the current batch is yielded before the entry is appended.
batch_full_gt(n, size, entry_size, cfg) ==
    n > cfg.max_events \/ (size + entry_size) > cfg.max_size
batch_full_count(n, size, entry_size, cfg) ==
    n >= cfg.max_events
batch_full(n, size, entry_size, cfg) ==
    n >= cfg.max_events \/ (size + entry_size) > cfg.max_size

\* The limits of the configuration: every pair within the bounds, and
\* max_events_per_request = 100 as a count limit that no input reaches.
BatchInit ==
    /\ bCfg \in [max_size : 0 .. MaxBytes,
                 max_events : (0 .. MaxCount) \cup {100}]
    /\ bLogs \in SizeSeqs
    /\ bIdx = 0
    /\ current_batch = <<>>
    /\ current_size = 0
    /\ bOut = <<>>
    /\ bDone = FALSE

\* One iteration of "for log in logs".
BatchLoop ==
    /\ ~bDone
    /\ bIdx < Len(bLogs)
    /\ LET i == bIdx + 1
           entry_size == bLogs[i]
       IN  /\ bIdx' = i
           /\ IF oversized(entry_size, bCfg)
                THEN UNCHANGED <<current_batch, current_size, bOut>>
                ELSE IF batch_full(Len(current_batch), current_size, entry_size, bCfg)
                THEN /\ bOut' = Append(bOut, current_batch)
                     /\ current_batch' = <<i>>
                     /\ current_size' = entry_size
                ELSE /\ current_batch' = Append(current_batch, i)
                     /\ current_size' = current_size + entry_size
                     /\ UNCHANGED bOut
    /\ UNCHANGED <<bCfg, bLogs, bDone>>

\* After the loop: "if current_batch: yield"; the generator is exhausted.
BatchFinish_drop ==
    /\ ~bDone
    /\ bIdx = Len(bLogs)
    /\ bDone' = TRUE
    /\ UNCHANGED <<bCfg, bLogs, bIdx, current_batch, current_size, bOut>>
BatchFinish ==
    /\ ~bDone
    /\ bIdx = Len(bLogs)
    /\ bOut' = IF current_batch # <<>> THEN Append(bOut, current_batch) ELSE bOut
    /\ bDone' = TRUE
    /\ UNCHANGED <<bCfg, bLogs, bIdx, current_batch, current_size>>

InitBatch ==
    WorkerIdle /\ SuperInit /\ ExtractIdle /\ BatchInit /\ RuleIdle /\ StoreIdle /\ FieldIdle

NextBatch ==
    \/ BatchLoop /\ UNCHANGED <<workerVars, superVars, extractVars, ruleVars, ckVars, fieldVars>>
    \/ BatchFinish /\ UNCHANGED <<workerVars, superVars, extractVars, ruleVars, ckVars, fieldVars>>

SpecBatch == InitBatch /\ [][NextBatch]_vars

\* Every emitted batch is non-empty and within both limits.
BatchesWithinLimits ==
    \A k \in DOMAIN bOut :
        /\ Len(bOut[k]) >= 1
        /\ Len(bOut[k]) <= bCfg.max_events
        /\ SumSizes(bLogs, bOut[k]) <= bCfg.max_size

\* Adding the next entry (one that is not dropped as oversized) would exceed
\* a limit, or the input is exhausted with entries still accumulated.
MustClose ==
    \/ /\ bIdx < Len(bLogs)
       /\ bLogs[bIdx + 1] <= bCfg.max_size
       /\ \/ Len(current_batch) + 1 > bCfg.max_events
          \/ current_size + bLogs[bIdx + 1] > bCfg.max_size
    \/ /\ bIdx = Len(bLogs)
       /\ ~bDone
       /\ current_batch # <<>>

\* C10 (as stated): for any max_events and max_size every emitted batch is
\* non-empty, holds at most max_events entries and at most max_size bytes.
C10_BatchesWithinLimitsAnyConfig == BatchesWithinLimits

\* C10 (amended): with max_events >= 1 every emitted batch is non-empty and
\* within both limits, and a step emits a batch exactly when adding the
\* next accepted entry would exceed a limit or the input is exhausted.
C10_BatchesWithinLimits ==
    /\ [](bCfg.max_events >= 1 => BatchesWithinLimits)
    /\ [][bCfg.max_events >= 1 =>
            ((Len(bOut') = Len(bOut) + 1) <=> MustClose)]_vars
C10_Witness ==
    /\ bDone
    /\ bCfg.max_events >= 1
    /\ Len(bOut) >= 2
    /\ \E k \in DOMAIN bOut : Len(bOut[k]) = bCfg.max_events
    /\ \E k \in DOMAIN bOut : SumSizes(bLogs, bOut[k]) = bCfg.max_size
    /\ \E i \in DOMAIN bLogs : bLogs[i] > bCfg.max_size

\* The input indices up to k of the entries that are not oversized, in
\* input order.
Kept(k) == SelectSeq([i \in 1 .. k |-> i],
                    LAMBDA i : bLogs[i] <= bCfg.max_size)

\* The packing loop applied to the entries idxs alone, none of them being
\* tested for its size: the accumulated batch, its size and the batches
\* yielded.
RECURSIVE PackOnly(_)
PackOnly(idxs) ==
    IF idxs = <<>>
      THEN [batch |-> <<>>, size |-> 0, out |-> <<>>]
      ELSE LET st == PackOnly(SubSeq(idxs, 1, Len(idxs) - 1))
               i == idxs[Len(idxs)]
           IN  IF batch_full(Len(st.batch), st.size, bLogs[i], bCfg)
                 THEN [batch |-> <<i>>, size |-> bLogs[i],
                       out |-> Append(st.out, st.batch)]
                 ELSE [batch |-> Append(st.batch, i),
                       size |-> st.size + bLogs[i], out |-> st.out]

\* The batches yielded and the batch being accumulated.
AllBatches == IF bDone THEN bOut ELSE Append(bOut, current_batch)

\* C11: an entry larger than max_size is in no batch; the step that drops
\* it leaves the accumulated batch and the yielded batches as they are; and
\* the other entries are packed exactly as the loop packs the input without
\* the oversized entries.
C11_OversizedEntryIsAbsent ==
    /\ [](\A k \in DOMAIN AllBatches : \A j \in DOMAIN AllBatches[k] :
            bLogs[AllBatches[k][j]] <= bCfg.max_size)
    /\ [](LET st == PackOnly(Kept(bIdx)) IN
            /\ current_batch = st.batch
            /\ current_size = st.size
            /\ bOut = IF bDone /\ st.batch # <<>>
                        THEN Append(st.out, st.batch) ELSE st.out)
    /\ [][(bIdx' = bIdx + 1 /\ bLogs[bIdx'] > bCfg.max_size)
            => UNCHANGED <<current_batch, current_size, bOut>>]_vars
C11_Witness ==
    /\ bDone
    /\ \E i \in DOMAIN bLogs :
          /\ bLogs[i] > bCfg.max_size
          /\ i > 1 /\ i < Len(bLogs)
          /\ \E k \in DOMAIN bOut : \E j \in DOMAIN bOut[k] :
                /\ j < Len(bOut[k])
                /\ bOut[k][j] = i - 1
                /\ bOut[k][j + 1] = i + 1

\* C12: entries of one size s with max_size = 2.5 s and max_events = 100
\* are yielded two per batch in input order, the last batch holding the one
\* entry left over when their number is odd.
C12_EqualSizesPairUp ==
    (/\ bDone
     /\ bCfg.max_events = 100
     /\ \A i \in DOMAIN bLogs : 2 * bCfg.max_size = 5 * bLogs[i])
        => /\ Len(bOut) = (Len(bLogs) + 1) \div 2
           /\ \A k \in DOMAIN bOut :
                 bOut[k] = IF 2 * k <= Len(bLogs)
                             THEN <<2 * k - 1, 2 * k>>
                             ELSE <<2 * k - 1>>
C12_Witness ==
    /\ bDone
    /\ bCfg.max_events = 100
    /\ Len(bLogs) = 3
    /\ \A i \in DOMAIN bLogs : 2 * bCfg.max_size = 5 * bLogs[i]
    /\ bOut = << <<1, 2>>, <<3>> >>

\* The entries of the batches, batch after batch.
RECURSIVE Concat(_)
Concat(bs) == IF bs = <<>> THEN <<>> ELSE Head(bs) \o Concat(Tail(bs))

\* When every entry of the input was dropped (or there was none), the
\* generator yields nothing, whatever the limits.
NoBatchWhenAllDropped ==
    (bDone /\ Kept(Len(bLogs)) = <<>>) => bOut = <<>>

\* C31: the batches emitted, one after the other, are the input sequence
\* without its oversized entries: nothing is reordered, duplicated or lost
\* (while the loop runs, the batches and the accumulated batch are the
\* entries seen so far without the oversized ones).
C31_BatchesAreTheInput ==
    /\ Concat(AllBatches) = Kept(bIdx)
    /\ bDone => Concat(bOut) = Kept(Len(bLogs))
C31_Witness ==
    /\ bDone
    /\ Len(bOut) = 3
    /\ Len(Kept(Len(bLogs))) = 3
    /\ Len(bLogs) = 4
    /\ Concat(bOut) = Kept(Len(bLogs))

\* =====================================================================
\* Transformation pipeline (processor/custom_processor.py, processor/sub/mapping.py)
\* =====================================================================

Min(a, b) == IF a < b THEN a ELSE b
Max(a, b) == IF a > b THEN a ELSE b

\* A string of n characters (the characters are numbered, so that a cut is
\* visible), and the truncation marker of m characters.
Str(n) == [i \in 1 .. n |-> i]
MarkStr(m) == [i \in 1 .. m |-> 0]

\* Python's s[:k].
SliceTo(s, k) ==
    IF k >= 0 THEN SubSeq(s, 1, Min(k, Len(s)))
              ELSE SubSeq(s, 1, Max(0, Len(s) + k))

\* CustomProcessor._truncate_content (content already a string).
truncate_content(content, cfg) ==
    IF Len(content) > cfg.content_limit
      THEN SliceTo(content, cfg.content_limit - Len(cfg.truncated_mark))
             \o cfg.truncated_mark
      ELSE content

\* CustomProcessor._truncate_generic_field
truncate_generic_field(value, cfg) ==
    IF Len(value) > cfg.attribute_limit
      THEN SliceTo(value, cfg.attribute_limit - Len(cfg.truncated_mark))
             \o cfg.truncated_mark
      ELSE value

\* mapping.log_level_to_severity_dict with the default of map_to_severity.
DEFAULT_SEVERITY_INFO == "Informational"
log_level_to_severity_dict(level) ==
    CASE level = 1 -> "Critical"
      [] level = 2 -> "Error"
      [] level = 3 -> "Warning"
      [] level = 4 -> "Informational"
      [] OTHER -> DEFAULT_SEVERITY_INFO

\* mapping.map_to_severity for the value v of the level property, followed
\* by str() of _truncate_value: isinstance(v, int) holds for an int and for
\* a bool (True is the key 1); any other value is stored as it is, and the
\* membership test "not in severity_to_log_level_dict" then raises
\* TypeError for an unhashable value (a list or an object), which the
\* except-branch answers with the default.
map_to_severity(v) ==
    IF v.t \in {"int", "bool"} THEN log_level_to_severity_dict(v.i)
    ELSE IF v.t \in {"list", "dict"} THEN DEFAULT_SEVERITY_INFO
    ELSE v.s

\* mapping.extract_severity / map_to_severity: no level field gives the
\* default, an int is mapped through the table, anything else is kept.
extract_severity(rec) ==
    IF rec.level.t = "absent" THEN DEFAULT_SEVERITY_INFO
    ELSE map_to_severity(rec.level)

\* The level field of a record: absent, an int or a string.
NoLevel == [t |-> "absent", i |-> 0, s |-> ""]
Levels == {NoLevel, [t |-> "int", i |-> 2, s |-> ""],
           [t |-> "str", i |-> 0, s |-> "Foo"]}

\* The records an event payload can hold.  null is JSON null, scalar any
\* element that is not an object, and an object carries: category (a string
\* or not), level, content (the length of the value the rule engine derives
\* under "content", -1: none) and resourceId (the length of the field,
\* -1: absent).
NullRecord   == [kind |-> "null", category |-> "str", level |-> NoLevel,
                 content |-> -1, resourceId |-> -1]
ScalarRecord == [kind |-> "scalar", category |-> "str", level |-> NoLevel,
                 content |-> -1, resourceId |-> -1]
BadRecord    == [kind |-> "dict", category |-> "nonstr", level |-> NoLevel,
                 content |-> -1, resourceId |-> -1]
DictRecords  == [kind : {"dict"}, category : {"str"},
                 level : Levels,
                 content : {-1, 1, MaxStrLen},
                 resourceId : {-1, MaxStrLen}]
Records == {NullRecord, ScalarRecord, BadRecord} \cup DictRecords

\* The entry _process_record returns when it catches an exception.
None == [none |-> TRUE, keys |-> {}, provider |-> <<>>, severity |-> "",
         content |-> <<>>, resource_id |-> <<>>]

\* parsed = {"cloud.provider": "Azure"}: the length of the provider tag.
ProviderTagLen == 5

\* CustomProcessor._build_parsed_record raises: the record is no mapping
\* (record.get fails), or record.get("category", "").lower() fails because
\* the category is not a string.
build_parsed_record_raises(rec) ==
    rec.kind # "dict" \/ rec.category = "nonstr"

\* CustomProcessor._build_parsed_record followed by _apply_field_limits:
\* "cloud.provider" and "severity" are always set, "azure.resource.id" holds
\* the resourceId verbatim, "content" what the rule engine derived; severity
\* is stringified without truncation, "content" is cut to the content limit
\* and every other field to the attribute limit.
apply_field_limits(rec, cfg) ==
    [none |-> FALSE,
     keys |-> {"cloud.provider", "severity"}
              \cup (IF rec.content >= 0 THEN {"content"} ELSE {})
              \cup (IF rec.resourceId >= 0 THEN {"azure.resource.id"} ELSE {}),
     provider |-> truncate_generic_field(Str(ProviderTagLen), cfg),
     severity |-> extract_severity(rec),
     content |-> IF rec.content >= 0
                   THEN truncate_content(Str(rec.content), cfg) ELSE <<>>,
     resource_id |-> IF rec.resourceId >= 0
                   THEN truncate_generic_field(Str(rec.resourceId), cfg) ELSE <<>>]

\* CustomProcessor._process_record: any exception is logged and None is
\* returned.
process_record(rec, cfg) ==
    IF build_parsed_record_raises(rec) THEN None ELSE apply_field_limits(rec, cfg)

\* The list comprehension of extract_logs: "if record is not None" filters
\* the input records, the value of _process_record is kept whatever it is.
RECURSIVE comprehension(_, _)
comprehension(records, cfg) ==
    IF records = <<>> THEN <<>>
    ELSE IF Head(records).kind = "null"
      THEN comprehension(Tail(records), cfg)
      ELSE <<process_record(Head(records), cfg)>>
             \o comprehension(Tail(records), cfg)

\* CustomProcessor._log_event_error: event.get("offset", "unknown") is
\* called on the event object of the stream client, which has no get(): the
\* handler of extract_logs itself raises AttributeError.
log_event_error_raises == TRUE

\* The payloads: body_as_str fails ("undecodable"), the body is empty,
\* neither json.loads nor the fallback parses it ("unparseable"), or it is
\* JSON (parsed strictly, or by the fallback after json.loads failed) that is
\* not an object ("nonobject"), an object without "records" ("norecords"),
\* an object whose "records" cannot be iterated ("badrecords"), or an object
\* with a list of records ("list").
RecordSeqs == UNION { [1 .. n -> Records] : n \in 0 .. MaxRecords }
Events ==
    [body : {"undecodable", "empty", "unparseable"}, lenient : {FALSE},
     records : {<<>>}]
    \cup [body : {"nonobject", "norecords", "badrecords"}, lenient : BOOLEAN,
          records : {<<>>}]
    \cup [body : {"list"}, lenient : BOOLEAN, records : RecordSeqs]

\* CustomProcessor._parse_event_body / _attempt_fallback_parsing: "raise"
\* when an exception leaves _parse_event_body or the iteration over its
\* value, else the records.  json.loads(body).get raises AttributeError on
\* a non-object, which only the fallback's "except Exception" catches.
parse_event_body(ev) ==
    CASE ev.body = "unparseable" -> [raised |-> FALSE, records |-> <<>>]
      [] ev.body = "nonobject" -> [raised |-> ~ev.lenient, records |-> <<>>]
      [] ev.body = "norecords" -> [raised |-> FALSE, records |-> <<>>]
      [] ev.body = "badrecords" -> [raised |-> TRUE, records |-> <<>>]
      [] OTHER -> [raised |-> FALSE, records |-> ev.records]

\* CustomProcessor.extract_logs
extract_logs(ev, cfg) ==
    IF ev.body = "empty"
      THEN [state |-> "done", raised |-> FALSE, logs |-> <<>>]
    ELSE IF ev.body = "undecodable" \/ parse_event_body(ev).raised
      THEN [state |-> "done", raised |-> log_event_error_raises, logs |-> <<>>]
    ELSE [state |-> "done", raised |-> FALSE,
          logs |-> comprehension(parse_event_body(ev).records, cfg)]

ExtractInit ==
    /\ xCfg \in [content_limit : 1 .. MaxLimit, attribute_limit : 1 .. MaxLimit,
                 truncated_mark : {MarkStr(m) : m \in 0 .. MaxMark}]
    /\ xEvent \in Events
    /\ xResult = [state |-> "pending", raised |-> FALSE, logs |-> <<>>]

ExtractLogs ==
    /\ xResult.state = "pending"
    /\ xResult' = extract_logs(xEvent, xCfg)
    /\ UNCHANGED <<xCfg, xEvent>>

InitExtract ==
    WorkerIdle /\ SuperInit /\ ExtractInit /\ BatchIdle /\ RuleIdle /\ StoreIdle /\ FieldIdle

NextExtract == ExtractLogs /\ UNCHANGED <<workerVars, superVars, batchVars, ruleVars, ckVars, fieldVars>>

SpecExtract == InitExtract /\ [][NextExtract]_vars

\* C7: extract_logs never raises, whatever the raw event.
C7_ExtractLogsNeverRaises ==
    xResult.state = "done" => ~xResult.raised

\* The records of the event that are processed without error.
RECURSIVE GoodRecords(_)
GoodRecords(records) ==
    IF records = <<>> THEN <<>>
    ELSE IF Head(records).kind = "dict" /\ Head(records).category = "str"
      THEN <<Head(records)>> \o GoodRecords(Tail(records))
      ELSE GoodRecords(Tail(records))

\* C8: a record whose processing raises contributes no element to the
\* returned sequence; the records processed without error contribute one
\* entry each, in input order.
C8_FailedRecordIsDropped ==
    (xResult.state = "done" /\ xEvent.body = "list")
        => /\ Len(xResult.logs) = Len(GoodRecords(xEvent.records))
           /\ \A i \in DOMAIN xResult.logs :
                 xResult.logs[i] = apply_field_limits(GoodRecords(xEvent.records)[i], xCfg)

\* C9: every returned element is a mapping with the provider tag and a
\* severity, content no longer than the content limit and the other
\* truncated fields no longer than the attribute limit.
C9_EntriesAreNormalized ==
    xResult.state = "done" =>
        \A i \in DOMAIN xResult.logs :
            LET e == xResult.logs[i] IN
              /\ ~e.none
              /\ {"cloud.provider", "severity"} \subseteq e.keys
              /\ Len(e.provider) <= xCfg.attribute_limit
              /\ Len(e.content) <= xCfg.content_limit
              /\ Len(e.resource_id) <= xCfg.attribute_limit

\* C21: for every limit and marker length, the "content" of the entry of a
\* record is the value itself when its length is at most the content limit,
\* and otherwise has exactly content_limit characters and ends with the
\* marker.
C21_ContentCutToLimit ==
    (xResult.state = "done" /\ ~xResult.raised /\ xEvent.body = "list") =>
        \A k \in DOMAIN xEvent.records :
            LET r == xEvent.records[k] IN
              (r.kind = "dict" /\ r.category = "str" /\ r.content >= 0) =>
                \E i \in DOMAIN xResult.logs :
                    LET c == xResult.logs[i].content
                        m == Len(xCfg.truncated_mark)
                    IN  IF r.content <= xCfg.content_limit
                          THEN c = Str(r.content)
                          ELSE /\ Len(c) = xCfg.content_limit
                               /\ SubSeq(c, Len(c) - m + 1, Len(c)) = xCfg.truncated_mark

\* =====================================================================
\* Rule engine (processor/sub/metadata_engine.py)
\* =====================================================================

\* str.casefold
casefold(s) ==
    [i \in DOMAIN s |-> IF s[i] = "A" THEN "a" ELSE IF s[i] = "B" THEN "b" ELSE s[i]]
\* str.startswith, "p in s" for strings
startswith(s, p) == Len(p) <= Len(s) /\ SubSeq(s, 1, Len(p)) = p
substring_in(p, s) ==
    \E i \in 0 .. (Len(s) - Len(p)) : SubSeq(s, i + 1, i + Len(p)) = p
\* ','.join(operands)
RECURSIVE join(_)
join(list) ==
    IF list = <<>> THEN <<>>
    ELSE IF Len(list) = 1 THEN list[1]
    ELSE list[1] \o <<",">> \o join(Tail(list))
\* str.split(',')
RECURSIVE split(_)
split(s) ==
    IF \A i \in DOMAIN s : s[i] # ","
      THEN <<s>>
      ELSE LET i == CHOOSE i \in DOMAIN s :
                        s[i] = "," /\ \A j \in 1 .. (i - 1) : s[j] # ","
           IN  <<SubSeq(s, 1, i - 1)>> \o split(SubSeq(s, i + 1, Len(s)))

eq_comparator(x, y) == casefold(x) = casefold(y)
in_comparator(x, y) ==
    \E k \in DOMAIN split(casefold(y)) : split(casefold(y))[k] = casefold(x)
prefix_comparator(x, y) == startswith(casefold(x), casefold(y))
contains_comparator(x, y) == substring_in(casefold(y), casefold(x))
CONDITION_COMPARATOR_MAP == {"$eq", "$in", "$prefix", "$contains"}
comparator(key, x, y) ==
    CASE key = "$eq" -> eq_comparator(x, y)
      [] key = "$in" -> in_comparator(x, y)
      [] key = "$prefix" -> prefix_comparator(x, y)
      [] key = "$contains" -> contains_comparator(x, y)

\* The extractors and their keys; source.casefold() of the source names
\* rule files use.
extract_resource_type(record, parsed_record) ==
    IF parsed_record[RESOURCE_TYPE_ATTRIBUTE] = Absent
      THEN <<>> ELSE parsed_record[RESOURCE_TYPE_ATTRIBUTE]
extract_category(record, parsed_record) ==
    IF record.category = Absent THEN <<>> ELSE record.category
SOURCE_VALUE_EXTRACTOR_MAP == {"resourcetype", "category"}
source_casefold(source) ==
    CASE source = "resourceType" -> "resourcetype"
      [] source = "Category" -> "category"
      [] OTHER -> source

\* SourceMatcher.__init__: a condition is written macro('operand',...);
\* the evaluator is the comparator whose key the condition starts with, the
\* operand the quoted literals joined by commas.
SourceMatcher(source, condition) ==
    LET evaluator == IF condition.macro \in CONDITION_COMPARATOR_MAP
                       THEN condition.macro ELSE "None"
        operand == join(condition.operands)
        extractor == IF source_casefold(source) \in SOURCE_VALUE_EXTRACTOR_MAP
                       THEN source_casefold(source) ELSE "None"
    IN  [source |-> source,
         condition |-> condition,
         valid |-> extractor # "None" /\ evaluator # "None" /\ operand # <<>>,
         evaluator |-> evaluator,
         operand |-> operand,
         extractor |-> extractor]

\* SourceMatcher.match
match(m, record, parsed_record) ==
    IF ~m.valid THEN FALSE
    ELSE LET value == IF m.extractor = "resourcetype"
                        THEN extract_resource_type(record, parsed_record)
                        ELSE extract_category(record, parsed_record)
         IN  comparator(m.evaluator, value, m.operand)

\* MetadataEngine._create_sources: the matchers that are valid.
create_sources_all(sources_def) ==
    [i \in DOMAIN sources_def |->
        SourceMatcher(sources_def[i].source, sources_def[i].condition)]
create_sources(sources_def) ==
    SelectSeq([i \in DOMAIN sources_def |->
                  SourceMatcher(sources_def[i].source, sources_def[i].condition)],
              LAMBDA m : m.valid)

\* MetadataEngine._create_attributes
create_attributes(attrs_def) ==
    [i \in DOMAIN attrs_def |->
        [key |-> attrs_def[i].key, pattern |-> attrs_def[i].pattern]]

\* MetadataEngine._create_config_rule
create_config_rule(entity_name, rule_def) ==
    LET sources == create_sources(rule_def.sources)
        attrs == create_attributes(rule_def.attributes)
    IN  IF entity_name # "default" /\ sources = <<>>
          THEN NoRule
          ELSE [entity_type_name |-> entity_name,
                source_matchers |-> sources,
                attributes |-> attrs]

\* MetadataEngine._process_config
process_config(config) ==
    SelectSeq([i \in DOMAIN config.rules |->
                  create_config_rule(config.name, config.rules[i])],
              LAMBDA r : r # NoRule)

\* MetadataEngine._load_single_config: the file named "default" is itself
\* the rule definition of the default rule.
load_single_config(engine, config) ==
    IF config.name = "default"
      THEN [engine EXCEPT !.default_rule = create_config_rule("default", config)]
      ELSE [engine EXCEPT !.rules = @ \o process_config(config)]

\* MetadataEngine.__init__ and _load_configs
RECURSIVE load_configs(_)
load_configs(files) ==
    IF files = <<>>
      THEN [rules |-> <<>>, default_rule |-> NoRule]
      ELSE load_single_config(load_configs(SubSeq(files, 1, Len(files) - 1)),
                              files[Len(files)])

\* MetadataEngine._is_rule_applicable
is_rule_applicable(rule, record, parsed_record) ==
    \A k \in DOMAIN rule.source_matchers :
        match(rule.source_matchers[k], record, parsed_record)

\* jmespath.search(pattern, raw_record) for a pattern that names a field;
\* a pattern that is no JMESPath expression ("category[") raises.
search_raises(pattern) == pattern = "category["
search(pattern, raw_record) ==
    IF pattern = "category" THEN raw_record.category ELSE Absent

\* MetadataEngine._apply_rule: every attribute whose pattern gives a value
\* is assigned under its key; the try/except inside the loop skips an
\* attribute whose search raises.
RECURSIVE apply_attributes_abort(_, _, _)
apply_attributes_abort(attrs, parsed_record, raw_record) ==
    IF attrs = <<>> THEN parsed_record
    ELSE IF search_raises(Head(attrs).pattern) THEN parsed_record
    ELSE LET value == search(Head(attrs).pattern, raw_record)
             assigned == IF value # Absent
                           THEN [parsed_record EXCEPT ![Head(attrs).key] = value]
                           ELSE parsed_record
         IN  apply_attributes_abort(Tail(attrs), assigned, raw_record)
RECURSIVE apply_attributes(_, _, _)
apply_attributes(attrs, parsed_record, raw_record) ==
    IF attrs = <<>> THEN parsed_record
    ELSE IF search_raises(Head(attrs).pattern)
      THEN apply_attributes(Tail(attrs), parsed_record, raw_record)
    ELSE LET value == search(Head(attrs).pattern, raw_record)
             assigned == IF value # Absent
                           THEN [parsed_record EXCEPT ![Head(attrs).key] = value]
                           ELSE parsed_record
         IN  apply_attributes(Tail(attrs), assigned, raw_record)
apply_rule(rule, parsed_record, raw_record) ==
    apply_attributes(rule.attributes, parsed_record, raw_record)

\* MetadataEngine.apply, "for rule in self.rules" from position k on: the
\* positions _is_rule_applicable was called for, and the position of the
\* rule the loop returned at (0: the loop ran to its end).
RECURSIVE for_rules_last(_, _, _, _)
for_rules_last(rs, k, record, parsed_record) ==
    IF k > Len(rs) THEN [hit |-> 0, evaluated |-> <<>>]
    ELSE LET rest == for_rules_last(rs, k + 1, record, parsed_record)
         IN  [hit |-> IF rest.hit > 0 THEN rest.hit
                      ELSE IF is_rule_applicable(rs[k], record, parsed_record)
                      THEN k ELSE 0,
              evaluated |-> <<k>> \o rest.evaluated]
RECURSIVE for_rules(_, _, _, _)
for_rules(rs, k, record, parsed_record) ==
    IF k > Len(rs) THEN [hit |-> 0, evaluated |-> <<>>]
    ELSE IF is_rule_applicable(rs[k], record, parsed_record)
    THEN [hit |-> k, evaluated |-> <<k>>]
    ELSE LET rest == for_rules(rs, k + 1, record, parsed_record)
         IN  [hit |-> rest.hit, evaluated |-> <<k>> \o rest.evaluated]

\* "if self.default_rule", reached when the loop did not return.
fallback_always(hit, dflt) == dflt # NoRule
fallback(hit, dflt) == hit = 0 /\ dflt # NoRule

\* MetadataEngine.apply: the rules evaluated, the rules _apply_rule was
\* called for (0 stands for the default rule) and the parsed record.
apply(engine, record, parsed_record) ==
    LET loop == for_rules(engine.rules, 1, record, parsed_record)
        after_loop == IF loop.hit > 0
                        THEN apply_rule(engine.rules[loop.hit], parsed_record, record)
                        ELSE parsed_record
        dflt == fallback(loop.hit, engine.default_rule)
    IN  [evaluated |-> loop.evaluated,
         applied |-> (IF loop.hit > 0 THEN <<loop.hit>> ELSE <<>>)
                     \o (IF dflt THEN <<0>> ELSE <<>>),
         parsed |-> IF dflt
                      THEN apply_rule(engine.default_rule, after_loop, record)
                      ELSE after_loop]

\* ---- the rule files and the records of SpecRules
MaxRules == 2       \* rules declared in the rule-set file

\* Matcher declarations: two valid ones, one with an unsupported source and
\* one whose condition names no comparator.
MatcherDecls ==
    << [source |-> "category",
        condition |-> [macro |-> "$eq", operands |-> << <<"a">> >>]],
       [source |-> "resourceType",
        condition |-> [macro |-> "$in", operands |-> << <<"a">>, <<"b">> >>]],
       [source |-> "resourceGroup",
        condition |-> [macro |-> "$eq", operands |-> << <<"a">> >>]],
       [source |-> "category",
        condition |-> [macro |-> "$regex", operands |-> << <<"a">> >>]] >>
\* "sources" of a rule: none, one or two of the declarations.
SourceLists ==
    {<<>>} \cup { <<MatcherDecls[i]>> : i \in DOMAIN MatcherDecls }
           \cup { <<MatcherDecls[p[1]], MatcherDecls[p[2]]>> :
                     p \in { q \in (DOMAIN MatcherDecls) \X (DOMAIN MatcherDecls) :
                                q[1] < q[2] } }
AttrLists == { <<>>, << [key |-> "dt.source", pattern |-> "category"] >> }
RuleDefs == [sources : SourceLists, attributes : AttrLists]
RuleSetFiles ==
    { [name |-> "vm", rules |-> rs, sources |-> <<>>, attributes |-> <<>>] :
        rs \in UNION { [1 .. n -> RuleDefs] : n \in 0 .. MaxRules } }
DefaultFile ==
    [name |-> "default", rules |-> <<>>, sources |-> <<>>,
     attributes |-> << [key |-> "dt.entity", pattern |-> "category"] >>]
\* A default file whose first attribute has a pattern that raises, whose
\* second one is keyed by an attribute the parsed record may already hold.
DefaultFileMixed ==
    [name |-> "default", rules |-> <<>>, sources |-> <<>>,
     attributes |-> << [key |-> "dt.source", pattern |-> "category["],
                       [key |-> RESOURCE_TYPE_ATTRIBUTE, pattern |-> "category"],
                       [key |-> "dt.entity", pattern |-> "category"] >>]
RuleDirs ==
    { <<f>> : f \in RuleSetFiles }
    \cup { <<f, d>> : f \in RuleSetFiles, d \in {DefaultFile, DefaultFileMixed} }

RawRecords == [category : { <<"A">>, <<"b">>, Absent }]
ParsedRecords ==
    { [NoParsed EXCEPT ![RESOURCE_TYPE_ATTRIBUTE] = t] : t \in { <<"b">>, Absent } }

\* CustomProcessor.__init__ builds the MetadataEngine, which loads the rule
\* files.
RulesInit ==
    /\ rFiles \in RuleDirs
    /\ rules = load_configs(rFiles).rules
    /\ default_rule = load_configs(rFiles).default_rule
    /\ rIn = [called |-> FALSE, record |-> NoRecord, parsed |-> NoParsed]
    /\ rOut = [evaluated |-> <<>>, applied |-> <<>>, parsed |-> NoParsed]

\* _build_parsed_record: self.metadata_engine.apply(record, parsed)
Apply(record, parsed_record) ==
    /\ rIn' = [called |-> TRUE, record |-> record, parsed |-> parsed_record]
    /\ rOut' = apply([rules |-> rules, default_rule |-> default_rule],
                     record, parsed_record)
    /\ UNCHANGED <<rFiles, rules, default_rule>>

InitRules ==
    WorkerIdle /\ SuperInit /\ ExtractIdle /\ BatchIdle /\ RulesInit /\ StoreIdle /\ FieldIdle

NextRules ==
    \E record \in RawRecords, parsed_record \in ParsedRecords :
        Apply(record, parsed_record)
          /\ UNCHANGED <<workerVars, superVars, extractVars, batchVars, ckVars, fieldVars>>

SpecRules == InitRules /\ [][NextRules]_vars

\* The positions of the loaded rules that the record of the last apply()
\* satisfies.
Matching ==
    { k \in DOMAIN rules : is_rule_applicable(rules[k], rIn.record, rIn.parsed) }
FirstMatching == CHOOSE k \in Matching : \A n \in Matching : k <= n

\* C15: when a record satisfies loaded rules, the rules are evaluated in
\* load order up to the first one it satisfies, that rule alone is applied,
\* and the parsed record carries its attributes and nothing else.
C15_FirstMatchWins ==
    (rIn.called /\ Matching # {})
        => /\ rOut.evaluated = [i \in 1 .. FirstMatching |-> i]
           /\ rOut.applied = <<FirstMatching>>
           /\ rOut.parsed = apply_rule(rules[FirstMatching], rIn.parsed, rIn.record)
C15_Witness ==
    /\ rIn.called
    /\ Matching = {1, 2}
    /\ Len(rules[1].source_matchers) = 2
    /\ Len(rules[2].source_matchers) = 1
    /\ rules[1].attributes = <<>>
    /\ rules[2].attributes # <<>>
    /\ rIn.record.category # Absent
    /\ rOut.applied = <<1>>
    /\ rOut.parsed = rIn.parsed

\* The rule that the last apply() applied.
AppliedRule ==
    IF rOut.applied[1] = 0 THEN default_rule ELSE rules[rOut.applied[1]]
\* The attributes of the applied rule that assign under the key: the search
\* of the pattern does not raise and its result is not null.
Assigning(key) ==
    { i \in DOMAIN AppliedRule.attributes :
        /\ AppliedRule.attributes[i].key = key
        /\ ~search_raises(AppliedRule.attributes[i].pattern)
        /\ search(AppliedRule.attributes[i].pattern, rIn.record) # Absent }
LastAssigning(key) ==
    CHOOSE i \in Assigning(key) : \A j \in Assigning(key) : j <= i

\* C28: when a rule is applied, each attribute is handled on its own and in
\* order: a non-null result is assigned under the key, a null result
\* and a raising query leave the parsed record as it is, and the attributes
\* after a raising one are still evaluated; apply() returns in every case.
C28_AttributesIndependent ==
    (rIn.called /\ rOut.applied # <<>>) =>
        /\ Len(rOut.applied) = 1
        /\ \A key \in ParsedKeys :
              rOut.parsed[key] =
                IF Assigning(key) = {} THEN rIn.parsed[key]
                ELSE search(AppliedRule.attributes[LastAssigning(key)].pattern,
                            rIn.record)
C28_Witness ==
    /\ rIn.called
    /\ rOut.applied = <<0>>
    /\ search_raises(default_rule.attributes[1].pattern)
    /\ rIn.parsed[RESOURCE_TYPE_ATTRIBUTE] = <<"b">>
    /\ rIn.record.category = <<"A">>
    /\ rOut.parsed["dt.source"] = Absent
    /\ rOut.parsed[RESOURCE_TYPE_ATTRIBUTE] = <<"A">>
    /\ rOut.parsed["dt.entity"] = <<"A">>

\* C16: the default rule is applied exactly when one was loaded and the
\* record satisfies no ordinary rule; a satisfied ordinary rule keeps the
\* default rule away even if it has no attributes; with nothing satisfied
\* and no default rule the parsed record is left as it was.
C16_DefaultIsFallback ==
    rIn.called
        => /\ (\E k \in DOMAIN rOut.applied : rOut.applied[k] = 0)
                 <=> (default_rule # NoRule /\ Matching = {})
           /\ (default_rule # NoRule)
                 <=> (\E k \in DOMAIN rFiles : rFiles[k].name = "default")
           /\ (default_rule # NoRule /\ Matching = {})
                 => /\ rOut.applied = <<0>>
                    /\ rOut.parsed = apply_rule(default_rule, rIn.parsed, rIn.record)
           /\ (default_rule = NoRule /\ Matching = {})
                 => (rOut.applied = <<>> /\ rOut.parsed = rIn.parsed)
C16_Witness ==
    /\ rIn.called
    /\ default_rule # NoRule
    /\ Matching # {}
    /\ rules[FirstMatching].attributes = <<>>
    /\ rIn.record.category # Absent
    /\ rOut.applied = <<FirstMatching>>
    /\ rOut.parsed = rIn.parsed

\* The declarations, in rule-file order, that were kept as rules: the
\* rule at position k of the loaded rules was declared as Declared(k).
DeclaredRules == rFiles[1].rules
Kept_rules ==
    SelectSeq([i \in DOMAIN DeclaredRules |-> i],
              LAMBDA i : create_config_rule(rFiles[1].name, DeclaredRules[i]) # NoRule)
Declared(k) == DeclaredRules[Kept_rules[k]]

\* C17: a rule is applied to a record only if every matcher declared for
\* it matches the record, an invalid matcher never matching.
C17_AllDeclaredMatchersMatch ==
    rIn.called =>
        \A n \in DOMAIN rOut.applied :
            rOut.applied[n] > 0 =>
                \A j \in DOMAIN Declared(rOut.applied[n]).sources :
                    LET d == Declared(rOut.applied[n]).sources[j]
                    IN  match(SourceMatcher(d.source, d.condition),
                              rIn.record, rIn.parsed)

\* The declared rules with at least one valid matcher declaration.
WithValidMatcher ==
    { i \in DOMAIN DeclaredRules :
        \E j \in DOMAIN DeclaredRules[i].sources :
            LET d == DeclaredRules[i].sources[j]
            IN  SourceMatcher(d.source, d.condition).valid }

\* C29: once the files are loaded, every ordinary rule has at least one
\* matcher and only valid ones; a declaration without a valid matcher gives
\* no rule, so no record ever has it applied.
C29_LoadedRulesHaveValidMatchers ==
    /\ \A k \in DOMAIN rules :
          /\ rules[k] # NoRule
          /\ Len(rules[k].source_matchers) >= 1
          /\ \A j \in DOMAIN rules[k].source_matchers : rules[k].source_matchers[j].valid
    /\ Len(rules) = Cardinality(WithValidMatcher)
    /\ \A k \in DOMAIN rules : Kept_rules[k] \in WithValidMatcher
    /\ \A n \in DOMAIN rOut.applied :
          rOut.applied[n] > 0 => Kept_rules[rOut.applied[n]] \in WithValidMatcher
C29_Witness ==
    /\ Len(DeclaredRules) = 2
    /\ DeclaredRules[1].sources # <<>>
    /\ WithValidMatcher = {2}
    /\ Len(rules) = 1
    /\ rIn.called
    /\ rOut.applied = <<1>>

\* =====================================================================
\* Checkpoint store (local_checkpoint.py)
\* =====================================================================
MaxUpdates == 4     \* update_checkpoint calls a behaviour follows

\* aiofiles.open(file_path, 'w'): the file is created or truncated.
open_a(content) == content
open_w(content) == <<>>

\* FileCheckpointStore.update_checkpoint on the files: the record
\* {"offset", "sequence_number"} is written to checkpoint.json of the
\* partition's directory.
write_checkpoint(files, checkpoint) ==
    [files EXCEPT ![checkpoint.partition_id] =
        Append(open_w(@), [offset |-> checkpoint.offset,
                           sequence_number |-> checkpoint.sequence_number])]

\* The checkpoints a call may carry: any event of any partition, in any
\* order.
Checkpoints == { Event(p, n) : p \in Partitions, n \in 1 .. MaxEvents }

RECURSIVE TotalCalls(_)
TotalCalls(ps) ==
    IF ps = {} THEN 0
    ELSE LET p == CHOOSE q \in ps : TRUE
         IN  Len(ckCalls[p]) + TotalCalls(ps \ {p})

\* FileCheckpointStore.__init__: the base directory exists, no partition
\* has a checkpoint file.
StoreInit ==
    /\ ckFile = [p \in Partitions |-> <<>>]
    /\ ckCalls = [p \in Partitions |-> <<>>]

\* await store.update_checkpoint(checkpoint)
StoreUpdate(checkpoint) ==
    /\ TotalCalls(Partitions) < MaxUpdates
    /\ ckFile' = write_checkpoint(ckFile, checkpoint)
    /\ store' = update_checkpoint(store, checkpoint)
    /\ ckCalls' = [ckCalls EXCEPT ![checkpoint.partition_id] = Append(@, checkpoint)]
    /\ UNCHANGED <<part, pc, cur, batches, sendState, raisedEv, invoked>>

InitStore ==
    WorkerIdle /\ SuperInit /\ ExtractIdle /\ BatchIdle /\ RuleIdle /\ StoreInit /\ FieldIdle

NextStore ==
    \E checkpoint \in Checkpoints :
        StoreUpdate(checkpoint)
          /\ UNCHANGED <<superVars, extractVars, batchVars, ruleVars, fieldVars>>

SpecStore == InitStore /\ [][NextStore]_vars

\* C18: after any sequence of update calls the checkpoint file of a
\* partition holds one record, the offset and sequence number of the last
\* call for that partition, and a partition never updated has none.
C18_OneValuePerPartition ==
    \A p \in Partitions :
        IF ckCalls[p] = <<>>
          THEN ckFile[p] = <<>> /\ store[p] = NoCheckpoint
          ELSE LET last == ckCalls[p][Len(ckCalls[p])]
                   rec == [offset |-> last.offset,
                           sequence_number |-> last.sequence_number]
               IN  ckFile[p] = <<rec>> /\ store[p] = rec
C18_Witness ==
    \E p \in Partitions :
        /\ Len(ckCalls[p]) >= 2
        /\ ckCalls[p][1].sequence_number > ckCalls[p][Len(ckCalls[p])].sequence_number
        /\ ckFile[p] = << [offset |-> ckCalls[p][Len(ckCalls[p])].offset,
                           sequence_number |->
                               ckCalls[p][Len(ckCalls[p])].sequence_number] >>
        /\ \E q \in Partitions : q # p /\ ckCalls[q] # <<>>

\* =====================================================================
\* Field derivation (CustomProcessor._build_parsed_record, processor/sub/mapping.py)
\* =====================================================================
MaxLevel == 5       \* largest integer level of a record
MaxSegments == 10   \* most path segments of a resource id

\* parsed_record[key] = value
Put(parsed_record, key, value) ==
    [parsed_record EXCEPT !.keys = @ \cup {key}, !.val[key] = value]

\* mapping.extract_severity: the first of azure_level_properties
\* ('Level', 'level') that is a key of the record names the level.
level_property(record) ==
    IF record.Level.t # "absent" THEN "Level"
    ELSE IF record.level.t # "absent" THEN "level"
    ELSE "None"
severity(record) ==
    IF level_property(record) = "None"
      THEN DEFAULT_SEVERITY_INFO
      ELSE map_to_severity(record[level_property(record)])

\* The string a sequence of pieces stands for.
RECURSIVE concat(_)
concat(chars) ==
    IF chars = <<>> THEN "" ELSE Head(chars) \o concat(Tail(chars))
\* str.lstrip("/")
RECURSIVE lstrip(_)
lstrip(chars) ==
    IF chars # <<>> /\ Head(chars) = "/" THEN lstrip(Tail(chars)) ELSE chars
\* str.split("/"): the strings between the slashes, empty ones included.
RECURSIVE split_slash(_)
split_slash(chars) ==
    IF \A i \in DOMAIN chars : chars[i] # "/"
      THEN <<concat(chars)>>
      ELSE LET i == CHOOSE i \in DOMAIN chars :
                        chars[i] = "/" /\ \A j \in 1 .. (i - 1) : chars[j] # "/"
           IN  <<concat(SubSeq(chars, 1, i - 1))>>
                 \o split_slash(SubSeq(chars, i + 1, Len(chars)))
\* "/".join(parts)
RECURSIVE join_slash(_)
join_slash(parts) ==
    IF parts = <<>> THEN ""
    ELSE IF Len(parts) = 1 THEN parts[1]
    ELSE parts[1] \o "/" \o join_slash(Tail(parts))
\* str.casefold on the words that stand at segments 0, 2 and 4.
str_casefold(w) ==
    CASE w = "Subscriptions" -> "subscriptions"
      [] w = "resourceGroups" -> "resourcegroups"
      [] OTHER -> w

\* parts[5:-1] filtered by "index == 0 or index % 2 != 0" (0-based index).
resource_type_parts_all(parts) == SubSeq(parts, 6, Len(parts) - 1)
resource_type_parts(parts) ==
    LET with_parent == SubSeq(parts, 6, Len(parts) - 1)
        RECURSIVE pick(_)
        pick(k) ==
            IF k > Len(with_parent) THEN <<>>
            ELSE (IF k = 1 \/ (k - 1) % 2 # 0 THEN <<with_parent[k]>> ELSE <<>>)
                   \o pick(k + 1)
    IN  pick(1)

\* mapping.extract_resource_id_attributes. The id is stored before it is
\* looked at. A value without lstrip (null, a number, a list) raises
\* AttributeError inside the try; the except-branch then logs
\* resource_id[:200], which raises TypeError out of the function unless
\* the value can be sliced.
extract_resource_id_attributes(parsed_record, resource_id) ==
    IF resource_id.t # "str"
      THEN [Put(parsed_record, RESOURCE_ID_ATTRIBUTE, concat(resource_id.chars))
              EXCEPT !.raised = resource_id.t # "list"]
      ELSE
        LET with_id == Put(parsed_record, RESOURCE_ID_ATTRIBUTE, concat(resource_id.chars))
            parts == split_slash(lstrip(resource_id.chars))
        IN  IF Len(parts) < 7 THEN with_id
            ELSE IF str_casefold(parts[1]) # "subscriptions" THEN with_id
            ELSE IF str_casefold(parts[3]) # "resourcegroups" THEN with_id
            ELSE IF str_casefold(parts[5]) # "providers" THEN with_id
            ELSE Put(Put(Put(Put(with_id,
                     SUBSCRIPTION_ATTRIBUTE, parts[2]),
                     RESOURCE_GROUP_ATTRIBUTE, parts[4]),
                     RESOURCE_NAME_ATTRIBUTE, parts[Len(parts)]),
                     RESOURCE_TYPE_ATTRIBUTE, join_slash(resource_type_parts(parts)))

\* CustomProcessor._extract_resource_info
extract_resource_info(record, parsed) ==
    IF record.resourceId.t # "absent"
      THEN extract_resource_id_attributes(parsed, record.resourceId)
      ELSE parsed

\* CustomProcessor._init_time_formats: the source text of the two regular
\* expressions, \d{4}-\d{2}-\d{2} \d{2}:\d{2}:\d{2} and
\* \d{2}/\d{2}/\d{4} \d{2}:\d{2}:\d{2}.
Digits(n) == <<"\\", "d", "{", n, "}">>
ClockText ==
    <<" ">> \o Digits("2") \o <<":">> \o Digits("2") \o <<":">> \o Digits("2")
time_patterns ==
    << Digits("4") \o <<"-">> \o Digits("2") \o <<"-">> \o Digits("2") \o ClockText,
       Digits("2") \o <<"/">> \o Digits("2") \o <<"/">> \o Digits("4") \o ClockText >>

\* pattern.match(timestamp): the pattern at the start of the string.
pattern_match(pattern, timestamp) ==
    IF pattern[6] = "-"
      THEN timestamp.sep = "-" /\ timestamp.year_first
      ELSE timestamp.sep = "/" /\ ~timestamp.year_first

\* CustomProcessor._get_format
DashFormat == "%Y-%m-%d %H:%M:%S"
SlashFormat == "%m/%d/%Y %H:%M:%S"
get_format(pattern) ==
    IF substring_in(<<"2", "0", "2">>, pattern) THEN DashFormat ELSE SlashFormat

\* datetime.strptime(timestamp, format) does not raise ValueError: the
\* layout is that of the format, the fields are in range and nothing
\* follows them.
strptime_ok(timestamp, format) ==
    /\ IF format = DashFormat
         THEN timestamp.sep = "-" /\ timestamp.year_first
         ELSE timestamp.sep = "/" /\ ~timestamp.year_first
    /\ timestamp.month \in 1 .. 12
    /\ timestamp.day \in 1 .. 28
    /\ timestamp.hour \in 0 .. 23
    /\ timestamp.minute \in 0 .. 59
    /\ timestamp.second \in 0 .. 59
    /\ timestamp.rest = ""

\* dt.isoformat(timespec="milliseconds")
Pad2(n) == IF n < 10 THEN "0" \o ToString(n) ELSE ToString(n)
isoformat(timestamp) ==
    ToString(timestamp.year) \o "-" \o Pad2(timestamp.month) \o "-" \o Pad2(timestamp.day)
      \o "T" \o Pad2(timestamp.hour) \o ":" \o Pad2(timestamp.minute)
      \o ":" \o Pad2(timestamp.second) \o ".000"
\* datetime.now(timezone.utc).isoformat(): the time of the call, never a
\* value parsed from the record.
UtcNow == "<utcnow>"

\* CustomProcessor._parse_datetime
RECURSIVE parse_datetime_from(_, _)
parse_datetime_from(k, timestamp) ==
    IF k > Len(time_patterns) THEN UtcNow
    ELSE IF /\ pattern_match(time_patterns[k], timestamp)
            /\ strptime_ok(timestamp, get_format(time_patterns[k]))
      THEN isoformat(timestamp)
      ELSE parse_datetime_from(k + 1, timestamp)
parse_datetime(timestamp) == parse_datetime_from(1, timestamp)

\* MetadataEngine.apply for the rule applied to the record: an attribute
\* whose pattern names a field of the record copies the value, unless the
\* field is missing.
timestamp_copied(record) ==
    "timestamp" \in record.attributes /\ record.timestamp.t # "absent"

\* CustomProcessor._convert_timestamp, called with the parsed record: a
\* value that is not a string makes pattern.match raise TypeError.
convert_timestamp(record, parsed) ==
    IF ~timestamp_copied(record) THEN parsed
    ELSE IF record.timestamp.t # "str" THEN [parsed EXCEPT !.raised = TRUE]
    ELSE Put(parsed, "timestamp", parse_datetime(record.timestamp))

\* CustomProcessor._build_parsed_record
build_parsed_record(record) ==
    LET resource == extract_resource_info(record,
            Put(Put(NoOutput, "cloud.provider", "Azure"), "severity", severity(record)))
    IN  IF resource.raised THEN resource ELSE convert_timestamp(record, resource)

\* The values a level field can carry: integers, booleans, strings (a
\* canonical name and another one), a list.
LevelValues ==
    [t : {"int"}, i : -1 .. MaxLevel, s : {""}]
    \cup { [t |-> "bool", i |-> 1, s |-> "True"],
           [t |-> "bool", i |-> 0, s |-> "False"],
           [t |-> "str", i |-> 0, s |-> "Error"],
           [t |-> "str", i |-> 0, s |-> "Foo"],
           [t |-> "list", i |-> 0, s |-> "[]"] }

\* Resource ids: the first n segments of a path, with one of the segments
\* 0, 2, 4 possibly replaced, with or without the leading slash; past the
\* end of the base path, type and name segments alternate.
StoragePath ==
    <<"subscriptions", "s1", "resourceGroups", "g1", "providers",
      "Microsoft.Storage", "storageAccounts", "acct1">>
ComputePath ==
    <<"subscriptions", "S", "resourceGroups", "G", "providers",
      "Microsoft.Compute", "virtualMachines", "V", "extensions", "E">>
Segment(base, k) ==
    IF k <= Len(base) THEN base[k]
    ELSE IF k % 2 = 1 THEN "type" \o ToString(k) ELSE "name" \o ToString(k)
Replacements ==
    { <<1, "subscriptions">>, <<1, "Subscriptions">>, <<1, "x">>,
      <<3, "resourcegroups">>, <<3, "x">>, <<5, "x">> }
RECURSIVE PathChars(_)
PathChars(segments) ==
    IF segments = <<>> THEN <<>>
    ELSE IF Len(segments) = 1 THEN segments
    ELSE <<Head(segments), "/">> \o PathChars(Tail(segments))
ResourceIdStrings ==
    { [t |-> "str",
       chars |-> lead \o PathChars([k \in 1 .. n |->
                     IF k = r[1] THEN r[2] ELSE Segment(base, k)])] :
        lead \in {<<>>, <<"/">>}, n \in 0 .. MaxSegments,
        r \in Replacements, base \in {StoragePath, ComputePath} }
ResourceIds ==
    ResourceIdStrings
    \cup { [t |-> "null", chars |-> <<"None">>],
           [t |-> "int", chars |-> <<"5">>],
           [t |-> "list", chars |-> <<"[]">>] }

\* Timestamps: both layouts and a mixed one, a month in and out of range,
\* with and without trailing text; and a number.
Timestamps ==
    [t : {"str"}, sep : {"-", "/"}, year_first : BOOLEAN, year : {2024},
     month : {1, 13}, day : {1}, hour : {10}, minute : {0}, second : {0},
     rest : {"", "Z"}]
    \cup { [NoStamp EXCEPT !.t = "int"] }

\* The record {"resourceId": "/subscriptions/s1/resourceGroups/g1/providers/
\* Microsoft.Storage/storageAccounts/acct1", "Level": 2,
\* "timestamp": "2024-01-01 10:00:00"}, with no rule attribute applied.
StorageRecord ==
    [NoFields EXCEPT
       !.resourceId = [t |-> "str", chars |-> <<"/">> \o PathChars(StoragePath)],
       !.Level = [t |-> "int", i |-> 2, s |-> ""],
       !.timestamp = [t |-> "str", sep |-> "-", year_first |-> TRUE, year |-> 2024,
                      month |-> 1, day |-> 1, hour |-> 10, minute |-> 0,
                      second |-> 0, rest |-> ""]]

\* Records that vary the level fields, records that vary the resource id,
\* records that vary the timestamp and the rule attributes, and the
\* storage record.
FieldRecords ==
    { [NoFields EXCEPT !.Level = a, !.level = b] :
        a \in LevelValues \cup {NoValue}, b \in LevelValues \cup {NoValue} }
    \cup { [NoFields EXCEPT !.resourceId = id] : id \in ResourceIds }
    \cup { [NoFields EXCEPT !.timestamp = ts, !.attributes = a] :
             ts \in Timestamps \cup {NoStamp}, a \in {{}, {"timestamp"}} }
    \cup { [StorageRecord EXCEPT !.attributes = a] : a \in {{}, {"timestamp"}} }

FieldsInit ==
    /\ fRecord \in FieldRecords
    /\ fParsed = NoOutput
    /\ fDone = FALSE

\* CustomProcessor._process_record up to the field limits.
BuildParsedRecord ==
    /\ ~fDone
    /\ fDone' = TRUE
    /\ fParsed' = build_parsed_record(fRecord)
    /\ UNCHANGED fRecord

InitFields ==
    WorkerIdle /\ SuperInit /\ ExtractIdle /\ BatchIdle /\ RuleIdle /\ StoreIdle
      /\ FieldsInit

NextFields ==
    BuildParsedRecord
      /\ UNCHANGED <<workerVars, superVars, extractVars, batchVars, ruleVars, ckVars>>

SpecFields == InitFields /\ [][NextFields]_vars

\* The value of the level property of the record (NoValue: none).
TheLevel ==
    IF level_property(fRecord) = "None" THEN NoValue
    ELSE fRecord[level_property(fRecord)]
Canonical(v) ==
    CASE v.i = 1 -> "Critical" [] v.i = 2 -> "Error" [] v.i = 3 -> "Warning"
      [] OTHER -> "Informational"

\* C22: integers 1..4 give Critical, Error, Warning, Informational, any
\* other integer and a missing level give Informational, and every value
\* that is not a number is emitted unchanged (in its string form).
C22_SeverityMapping ==
    fDone =>
        CASE TheLevel.t = "absent" -> fParsed.val["severity"] = "Informational"
          [] TheLevel.t = "int" -> fParsed.val["severity"] = Canonical(TheLevel)
          [] OTHER -> fParsed.val["severity"] = TheLevel.s

\* The segments of the resource id of the record, when it is a string.
Parts == split_slash(lstrip(fRecord.resourceId.chars))
WellFormed ==
    /\ fRecord.resourceId.t = "str"
    /\ Len(Parts) >= 7
    /\ str_casefold(Parts[1]) = "subscriptions"
    /\ str_casefold(Parts[3]) = "resourcegroups"
    /\ str_casefold(Parts[5]) = "providers"

\* C23: a resource id with fewer than 7 segments, or with a segment 0, 2 or
\* 4 that does not match, adds no resource attribute to the entry, and no
\* exception leaves the extraction.
C23_MalformedIdAddsNothing ==
    (fDone /\ fRecord.resourceId.t # "absent" /\ ~WellFormed) =>
        /\ ~fParsed.raised
        /\ fParsed.keys \cap ResourceKeys = {}

\* The provider namespace followed by the middle segments of odd index.
ExpectedType ==
    join_slash([m \in 1 .. (1 + (Len(Parts) - 6) \div 2) |->
                    IF m = 1 THEN Parts[6] ELSE Parts[6 + 2 * (m - 1) - 1]])

\* C24: for a well-formed resource id the subscription is segment 1, the
\* resource group segment 3, the name the last segment and the type the
\* provider namespace followed by every odd-indexed middle segment, joined
\* with '/'; the id of the example gives
\* Microsoft.Compute/virtualMachines/extensions, E, S and G.
C24_WellFormedIdAttributes ==
    (fDone /\ WellFormed) =>
        /\ ~fParsed.raised
        /\ ResourceKeys \subseteq fParsed.keys
        /\ fParsed.val[SUBSCRIPTION_ATTRIBUTE] = Parts[2]
        /\ fParsed.val[RESOURCE_GROUP_ATTRIBUTE] = Parts[4]
        /\ fParsed.val[RESOURCE_NAME_ATTRIBUTE] = Parts[Len(Parts)]
        /\ fParsed.val[RESOURCE_TYPE_ATTRIBUTE] = ExpectedType
        /\ (Parts = ComputePath =>
              /\ fParsed.val[RESOURCE_TYPE_ATTRIBUTE]
                    = "Microsoft.Compute/virtualMachines/extensions"
              /\ fParsed.val[RESOURCE_NAME_ATTRIBUTE] = "E"
              /\ fParsed.val[SUBSCRIPTION_ATTRIBUTE] = "S"
              /\ fParsed.val[RESOURCE_GROUP_ATTRIBUTE] = "G")
C24_Witness ==
    /\ fDone
    /\ fRecord.resourceId.chars = <<"/">> \o PathChars(ComputePath)
    /\ WellFormed
    /\ fParsed.val[RESOURCE_TYPE_ATTRIBUTE] = "Microsoft.Compute/virtualMachines/extensions"

\* The layouts the two recognized patterns stand for.
IsDash(ts) == ts.sep = "-" /\ ts.year_first
IsSlash(ts) == ts.sep = "/" /\ ~ts.year_first
Parses(ts) ==
    /\ ts.month \in 1 .. 12 /\ ts.day \in 1 .. 28 /\ ts.hour \in 0 .. 23
    /\ ts.minute \in 0 .. 59 /\ ts.second \in 0 .. 59 /\ ts.rest = ""

\* C25: a timestamp is matched against the dash pattern, then the slash
\* pattern; the first match is parsed with the format of its pattern and
\* emitted as ISO-8601 with milliseconds; the current UTC time is used only
\* when no pattern matches or parsing fails for all.
C25_TimestampNormalized ==
    (fDone /\ timestamp_copied(fRecord) /\ fRecord.timestamp.t = "str") =>
        /\ ~fParsed.raised
        /\ "timestamp" \in fParsed.keys
        /\ fParsed.val["timestamp"] =
              IF (IsDash(fRecord.timestamp) \/ IsSlash(fRecord.timestamp))
                   /\ Parses(fRecord.timestamp)
                THEN isoformat(fRecord.timestamp)
                ELSE UtcNow

\* C26: the record with the storage-account resource id, Level 2 and
\* timestamp "2024-01-01 10:00:00" gives an entry with severity Error,
\* subscription s1, resource group g1, type
\* Microsoft.Storage/storageAccounts, name acct1 and timestamp
\* 2024-01-01T10:00:00.000.
C26_StorageRecordEntry ==
    (fDone /\ [fRecord EXCEPT !.attributes = {}] = StorageRecord) =>
        /\ ~fParsed.raised
        /\ fParsed.val["severity"] = "Error"
        /\ fParsed.val[SUBSCRIPTION_ATTRIBUTE] = "s1"
        /\ fParsed.val[RESOURCE_GROUP_ATTRIBUTE] = "g1"
        /\ fParsed.val[RESOURCE_TYPE_ATTRIBUTE] = "Microsoft.Storage/storageAccounts"
        /\ fParsed.val[RESOURCE_NAME_ATTRIBUTE] = "acct1"
        /\ "timestamp" \in fParsed.keys
        /\ fParsed.val["timestamp"] = "2024-01-01T10:00:00.000"

\* =====================================================================
\* Events without entries (CustomProcessor.process, extract_logs)
\* =====================================================================

\* The payloads of the claim: empty, failing both parse attempts, an empty
\* records list.
NoEntryEvents ==
    { e \in Events : \/ e.body \in {"empty", "unparseable"}
                     \/ (e.body = "list" /\ e.records = <<>>) }
\* process() has returned for an event whose extract_logs gave no entry.
NoEntryProcessed == pc = "processed" /\ sendState = "notcalled" /\ ~raisedEv

\* C33: an event with an empty payload, a payload that fails both parse
\* attempts or an empty records list gives no entry; for an event without
\* entries send() is not called and no HTTP request is made, and the
\* checkpoint update is still invoked for it, after which the next event
\* can be taken.
C33_NoEntryEventIsCheckpointed ==
    /\ [](\A e \in NoEntryEvents :
            /\ ~extract_logs(e, xCfg).raised
            /\ extract_logs(e, xCfg).logs = <<>>)
    /\ [](NoEntryProcessed => batches = <<>>)
    /\ [][NoEntryProcessed =>
            (invoked' = cur /\ cur' = cur /\ pc' = "idle" /\ batches' = <<>>
               /\ sendState' = "notcalled")]_vars
    /\ NoEntryProcessed ~> (pc = "idle" /\ invoked = cur)
C33_Witness ==
    /\ pc = "idle"
    /\ cur = MaxEvents
    /\ invoked = cur
    /\ sendState = "notcalled"
    /\ ~raisedEv
    /\ batches = <<>>

====
